---- MODULE Spec2Model ----
(***************************************************************************)
(* Model of the longhorn-manager upgrade coordinator (upgrade/upgrade.go): *)
(* N candidates call upgrade(), race on one lease through                  *)
(* leaderelection.RunOrDie, and the elected one runs the migration chain   *)
(* inside the OnStartedLeading callback.                                   *)
(* A second specification, SpecCSI, models Deploy and Cleanup of the CSI   *)
(* components (csi/deployment.go).                                         *)
(***************************************************************************)
EXTENDS Integers, Sequences, FiniteSets, TLC

(* ---------------- bounds ---------------- *)
NumCandidates == 2
MaxLeaseLoss == 1
MaxCrashes == 1
MaxOthers == 1

Procs == 1..NumCandidates
NoHolder == 0

(* ---------------- program constants ---------------- *)
CRDAPIVersionV1alpha1 == "longhorn.rancher.io/v1alpha1"
CRDAPIVersionV1beta1 == "longhorn.io/v1beta1"
CRDAPIVersionV1beta2 == "longhorn.io/v1beta2"
CurrentCRDAPIVersion == CRDAPIVersionV1beta2

(* values a CRD-API-version setting found in the cluster may carry *)
MarkerValues == {"", CRDAPIVersionV1alpha1, CRDAPIVersionV1beta1, CRDAPIVersionV1beta2}

(* ---------------- errors ---------------- *)
(* An error is the tuple of its messages, outermost wrap first; nil is <<>> *)
Nil == <<>>
ErrAPI == <<"api error">>
ErrUnrecognized == <<"unrecognized CRD API version">>
ErrUnsupported == <<"don't support upgrade">>

Wrap(e, msg) == IF e = Nil THEN Nil ELSE <<msg>> \o e

(* ---------------- the chain ---------------- *)
CRSteps ==
  << "v070to080.UpgradeCRs", "v100to101.UpgradeCRs", "v102to110.UpgradeCRs",
     "v110to111.UpgradeCRs", "v110to120.UpgradeCRs", "v111to120.UpgradeCRs",
     "v120to121.UpgradeCRs", "v122to123.UpgradeCRs" >>

PodSteps ==
  << "v100to101.UpgradeInstanceManagerPods", "v102to110.UpgradePods",
     "v110to111.UpgradePods" >>

ServiceSteps == << "v110to111.UpgradeServices" >>

WorkloadSteps == << "v110to111.UpgradeDeploymentAndDaemonSet" >>

(* the calls of doAPIVersionUpgrade *)
VersionSteps == {"Get", "CanUpgrade", "Create", "UpgradeCRFromV1beta1ToV1beta2", "Update"}

(* mutant: the service phase is called before the pod phase *)
Phases_Swapped ==
  << "doCRUpgrade", "doServicesUpgrade", "doPodsUpgrade", "doDeploymentAndDaemonSetUpgrade" >>

(* the functions OnStartedLeading calls after doAPIVersionUpgrade, in order *)
Phases ==
  << "doCRUpgrade", "doPodsUpgrade", "doServicesUpgrade", "doDeploymentAndDaemonSetUpgrade" >>

PhaseSet == {Phases[i] : i \in 1..Len(Phases)}

PhaseIndex(ph) == CHOOSE i \in 1..Len(Phases) : Phases[i] = ph

StepsOf(ph) ==
  CASE ph = "doCRUpgrade" -> CRSteps
    [] ph = "doPodsUpgrade" -> PodSteps
    [] ph = "doServicesUpgrade" -> ServiceSteps
    [] ph = "doDeploymentAndDaemonSetUpgrade" -> WorkloadSteps

(* every upgrader of the chain, in declaration order *)
ChainSteps == CRSteps \o PodSteps \o ServiceSteps \o WorkloadSteps

ChainStepSet == {ChainSteps[i] : i \in 1..Len(ChainSteps)}

StepIndex(s) == CHOOSE i \in 1..Len(ChainSteps) : ChainSteps[i] = s

(* position of a call in declaration order, version resolution first *)
Ord(s) ==
  CASE s = "Get" -> 1
    [] s = "CanUpgrade" -> 2
    [] s = "Create" -> 3
    [] s = "UpgradeCRFromV1beta1ToV1beta2" -> 4
    [] s = "Update" -> 5
    [] OTHER -> 5 + StepIndex(s)

PhaseOf(s) ==
  CASE s \in VersionSteps -> "doAPIVersionUpgrade"
    [] StepIndex(s) <= Len(CRSteps) -> "doCRUpgrade"
    [] StepIndex(s) <= Len(CRSteps) + Len(PodSteps) -> "doPodsUpgrade"
    [] StepIndex(s) <= Len(CRSteps) + Len(PodSteps) + Len(ServiceSteps) -> "doServicesUpgrade"
    [] OTHER -> "doDeploymentAndDaemonSetUpgrade"

WrapMsg(phase) ==
  CASE phase = "doAPIVersionUpgrade" -> "upgrade API version failed"
    [] phase = "doCRUpgrade" -> "upgrade CRD failed"
    [] phase = "doPodsUpgrade" -> "upgrade Pods failed"
    [] phase = "doServicesUpgrade" -> "doServicesUpgrade failed"
    [] OTHER -> "doDeploymentAndDaemonSetUpgrade failed"

(* error of the upgrader s *)
StepErr(s) == <<s>> \o ErrAPI

(* mutant: the `return err` after a failing upgrader is missing *)
Calls_NoReturn(steps, failAt) ==
  [i \in 1..Len(steps) |->
     [step |-> steps[i], res |-> IF i = failAt THEN "failed" ELSE "ok"]]

(* `if err := step(); err != nil { return err }` in a do*Upgrade function:
   the calls it makes when its failAt-th upgrader fails (0: none fails) *)
Calls(steps, failAt) ==
  [i \in 1..(IF failAt = 0 THEN Len(steps) ELSE failAt) |->
     [step |-> steps[i], res |-> IF i = failAt THEN "failed" ELSE "ok"]]

(* the error a do*Upgrade function returns after making these calls *)
Returned(calls) ==
  IF calls /= <<>> /\ calls[Len(calls)].res = "failed"
    THEN StepErr(calls[Len(calls)].step)
    ELSE Nil

(* `if err = phase(); err != nil { return }` in OnStartedLeading: where the
   callback goes after the function ph returned e *)
Continue(ph, e) ==
  IF e /= Nil THEN "FAILED"
  ELSE IF ph = "doAPIVersionUpgrade" THEN Phases[1]
  ELSE IF PhaseIndex(ph) < Len(Phases) THEN Phases[PhaseIndex(ph) + 1]
  ELSE "DONE"

(* mutant: the guard is gone *)
IsUnrecognized_Dropped(v) == FALSE

(* the guard on the value read from the setting *)
IsUnrecognized(v) ==
  /\ v /= ""
  /\ v /= CRDAPIVersionV1beta1
  /\ v /= CRDAPIVersionV1beta2

(* mutant: the no-op test compares with the previous version *)
IsCurrent_Stale(v) == v = CRDAPIVersionV1beta1

(* `crdAPIVersion == types.CurrentCRDAPIVersion`: no upgrade is needed *)
IsCurrent(v) == v = CurrentCRDAPIVersion

(* mutant: the v1beta1 case goes to the Update without the conversion *)
Dispatch_SkipConversion(v) ==
  CASE v = "" -> "CanUpgrade"
    [] v = CRDAPIVersionV1beta1 -> "Update"
    [] OTHER -> "default"

(* the switch on crdAPIVersion: the next call, or "default" *)
Dispatch(v) ==
  CASE v = "" -> "CanUpgrade"
    [] v = CRDAPIVersionV1beta1 -> "UpgradeCRFromV1beta1ToV1beta2"
    [] OTHER -> "default"

(* mutant: the Update writes the wrong version constant *)
UpdatedValue_WrongConstant == CRDAPIVersionV1alpha1

(* the value written by the Update that finishes the legacy conversion *)
UpdatedValue == CRDAPIVersionV1beta2

(* the value of the setting created on a new installation *)
CreatedValue == CurrentCRDAPIVersion

VARIABLES
  pc,             \* per candidate: position in upgrade(): acquire, leading, returned, crashed
  cpc,            \* per candidate: position of its OnStartedLeading goroutine
  err,            \* per candidate: the err variable of upgrade()
  ret,            \* per candidate: the value upgrade() returned
  ctxDone,        \* per candidate: cancel() has been called on the election context
  log,            \* per candidate: the calls its chain has made, with their outcome
  crdAPIVersion,  \* per candidate: local crdAPIVersion of doAPIVersionUpgrade
  readRV,         \* per candidate: resourceVersion of the crdAPIVersionSetting it read
  lease,          \* the LeaseLock record: holder and whether leaseDuration has elapsed
  setting,        \* the CRD-API-version setting in the cluster
  probe,          \* what v1beta1.CanUpgrade answers for this cluster
  conversions,    \* successful runs of UpgradeCRFromV1beta1ToV1beta2
  losses,         \* renew failures so far
  crashes,        \* process crashes so far
  component,      \* csi: the receiver: attacher, provisioner or plugin
  op,             \* csi: the method called on it: Deploy, Cleanup, or none
  present,        \* csi: per kind, whether the object exists in the cluster
  dpc,            \* csi: position of Deploy: object index and call
  cmain,          \* csi: position of Cleanup's own goroutine
  task,           \* csi: per kind, position of the cleanup started for it
  terr,           \* csi: per kind, the error its cleanup returned
  result,         \* csi: what the method handed back to its caller
  apiCalls,       \* csi: the API calls made so far, with their outcome
  others          \* csi: writes by other actors so far

upgradeVars == << pc, cpc, err, ret, ctxDone, log, crdAPIVersion, readRV, lease,
                  setting, probe, conversions, losses, crashes >>
csiVars == << component, op, present, dpc, cmain, task, terr, result, apiCalls, others >>
vars == << upgradeVars, csiVars >>

gateVars == << pc, ret, lease, losses, crashes >>
runVars == << cpc, err, ctxDone, log, crdAPIVersion, readRV >>
clusterVars == << setting, probe, conversions >>

Absent == [exists |-> FALSE, value |-> "", rv |-> 0]

(* ---------------- CSI deployment: objects ---------------- *)
Components == {"attacher", "provisioner", "plugin"}
Kinds == {"service", "deployment", "daemon set"}

(* the objects of a component, in the order Deploy reconciles them *)
ObjectsOf(c) ==
  IF c = "plugin" THEN << "daemon set" >> ELSE << "service", "deployment" >>

ObjectSet(c) == {ObjectsOf(c)[i] : i \in 1..Len(ObjectsOf(c))}

(* no method of a CSI component has been called *)
NoCSICall ==
  /\ component = "attacher"
  /\ op = "none"
  /\ present = [k \in Kinds |-> FALSE]
  /\ dpc = [i |-> 0, at |-> "idle"]
  /\ cmain = "idle"
  /\ task = [k \in Kinds |-> "none"]
  /\ terr = [k \in Kinds |-> Nil]
  /\ result = Nil
  /\ apiCalls = << >>
  /\ others = 0

InitUpgrade ==
  /\ pc = [p \in Procs |-> "acquire"]
  /\ cpc = [p \in Procs |-> "idle"]
  /\ err = [p \in Procs |-> Nil]
  /\ ret = [p \in Procs |-> Nil]
  /\ ctxDone = [p \in Procs |-> FALSE]
  /\ log = [p \in Procs |-> <<>>]
  /\ crdAPIVersion = [p \in Procs |-> ""]
  /\ readRV = [p \in Procs |-> 0]
  /\ lease = [holder |-> NoHolder, expired |-> FALSE]
  /\ setting \in {Absent} \cup {[exists |-> TRUE, value |-> v, rv |-> 1] : v \in MarkerValues}
  /\ probe \in BOOLEAN
  /\ conversions = 0
  /\ losses = 0
  /\ crashes = 0

Init == InitUpgrade /\ NoCSICall

(* the persisted VersionMarker as a candidate reads it *)
Marker == IF setting.exists THEN setting.value ELSE ""

(* the callback goroutine of p is executing the chain *)
Running(p) == pc[p] /= "crashed" /\ cpc[p] \notin {"idle", "DONE", "FAILED"}

(* p holds the valid, non-expired lease *)
HoldsLease(p) == lease.holder = p /\ ~lease.expired

(* ---------------- Leader Election Gate ---------------- *)

(* mutant: a candidate takes the lease whoever holds it *)
CanAcquire_Always(p) == TRUE

(* mutant: a candidate takes a free lease only, never one whose
   LeaseDuration has run out *)
CanAcquire_FreeOnly(p) == lease.holder = NoHolder

(* tryAcquireOrRenew of a candidate that is not the holder *)
CanAcquire(p) == lease.holder = NoHolder \/ lease.expired

(* mutant: RunOrDie is called again after it returned, so a candidate whose
   tenure has ended competes for the lease once more *)
Acquire_Again(p) ==
  /\ pc[p] \in {"acquire", "returned"}
  /\ CanAcquire(p)
  /\ lease' = [holder |-> p, expired |-> FALSE]
  /\ pc' = [pc EXCEPT ![p] = "leading"]
  /\ cpc' = [cpc EXCEPT ![p] = "Get"]
  /\ UNCHANGED << csiVars, err, ret, ctxDone, log, crdAPIVersion, readRV, clusterVars, losses, crashes >>

(* le.acquire succeeds; Run starts `go OnStartedLeading(ctx)` and enters renew *)
Acquire(p) ==
  /\ pc[p] = "acquire"
  /\ CanAcquire(p)
  /\ lease' = [holder |-> p, expired |-> FALSE]
  /\ pc' = [pc EXCEPT ![p] = "leading"]
  /\ cpc' = [cpc EXCEPT ![p] = "Get"]
  /\ UNCHANGED << csiVars, err, ret, ctxDone, log, crdAPIVersion, readRV, clusterVars, losses, crashes >>

(* le.release of ReleaseOnCancel: gives the lease up if p still holds it and
   the update reaches the API server *)
Released(p, ok) ==
  IF ok /\ lease.holder = p THEN [holder |-> NoHolder, expired |-> FALSE] ELSE lease

(* the callback has returned and cancelled the context: renew stops, the
   lease is released, RunOrDie returns and upgrade returns err *)
StopLeading(p) ==
  /\ pc[p] = "leading"
  /\ ctxDone[p]
  /\ \E ok \in BOOLEAN : lease' = Released(p, ok)
  /\ pc' = [pc EXCEPT ![p] = "returned"]
  /\ ret' = [ret EXCEPT ![p] = err[p]]
  /\ UNCHANGED << csiVars, runVars, clusterVars, losses, crashes >>

(* the leader cannot renew within RenewDeadline: renew gives up, RunOrDie
   returns and upgrade returns err while the callback goroutine goes on *)
LoseLease(p) ==
  /\ pc[p] = "leading"
  /\ ~ctxDone[p]
  /\ losses < MaxLeaseLoss
  /\ losses' = losses + 1
  /\ \E ok \in BOOLEAN : lease' = Released(p, ok)
  /\ pc' = [pc EXCEPT ![p] = "returned"]
  /\ ret' = [ret EXCEPT ![p] = err[p]]
  /\ UNCHANGED << csiVars, runVars, clusterVars, crashes >>

(* LeaseDuration passes without a renewal by the holder *)
LeaseExpire ==
  /\ lease.holder /= NoHolder
  /\ ~lease.expired
  /\ pc[lease.holder] /= "leading"
  /\ lease' = [lease EXCEPT !.expired = TRUE]
  /\ UNCHANGED << csiVars, pc, ret, losses, crashes, runVars, clusterVars >>

(* the process of p dies *)
Crash(p) ==
  /\ pc[p] \in {"acquire", "leading"} \/ Running(p)
  /\ crashes < MaxCrashes
  /\ crashes' = crashes + 1
  /\ pc' = [pc EXCEPT ![p] = "crashed"]
  /\ UNCHANGED << csiVars, ret, lease, losses, runVars, clusterVars >>

(* ---------------- the callback ---------------- *)

(* mutant: cancel() is called at the end of the callback only, not on the
   early returns *)
Advance_NoCancelOnFailure(p, calls, e, next) ==
  /\ log' = [log EXCEPT ![p] = @ \o calls]
  /\ cpc' = [cpc EXCEPT ![p] = next]
  /\ err' = [err EXCEPT ![p] = e]
  /\ ctxDone' = [ctxDone EXCEPT ![p] = @ \/ next = "DONE"]

(* the callback goroutine moves to next with err = e, having made these
   calls; returning from the callback runs `defer cancel()` *)
Advance(p, calls, e, next) ==
  /\ log' = [log EXCEPT ![p] = @ \o calls]
  /\ cpc' = [cpc EXCEPT ![p] = next]
  /\ err' = [err EXCEPT ![p] = e]
  /\ ctxDone' = [ctxDone EXCEPT ![p] = @ \/ next \in {"DONE", "FAILED"}]

(* doAPIVersionUpgrade returns e after its call s ended with res ("ok",
   "failed", or "exists" for a swallowed AlreadyExists): the deferred Wrap,
   then the `if err != nil { return }` of the callback *)
VersionReturn(p, s, res, e) ==
  LET wrapped == Wrap(e, WrapMsg("doAPIVersionUpgrade")) IN
  Advance(p, << [step |-> s, res |-> res] >>, wrapped, Continue("doAPIVersionUpgrade", wrapped))

(* doAPIVersionUpgrade goes on to its call next after its call s *)
VersionGoto(p, s, next) ==
  Advance(p, << [step |-> s, res |-> "ok"] >>, Nil, next)

(* doAPIVersionUpgrade: Settings.Get, the guard and the switch *)
GetSetting(p) ==
  /\ Running(p)
  /\ cpc[p] = "Get"
  /\ UNCHANGED << csiVars, gateVars, clusterVars >>
  /\ \/ (* Get fails with an error other than NotFound *)
        /\ VersionReturn(p, "Get", "failed", ErrAPI)
        /\ UNCHANGED << crdAPIVersion, readRV >>
     \/ LET v == Marker IN
        /\ crdAPIVersion' = [crdAPIVersion EXCEPT ![p] = v]
        /\ readRV' = [readRV EXCEPT ![p] = setting.rv]
        /\ IF IsUnrecognized(v) THEN VersionReturn(p, "Get", "ok", ErrUnrecognized)
           ELSE IF IsCurrent(v) THEN VersionReturn(p, "Get", "ok", Nil)
           ELSE IF Dispatch(v) = "default" THEN VersionReturn(p, "Get", "ok", ErrUnsupported)
           ELSE VersionGoto(p, "Get", Dispatch(v))

(* case "": v1beta1.CanUpgrade *)
CanUpgrade(p) ==
  /\ Running(p)
  /\ cpc[p] = "CanUpgrade"
  /\ UNCHANGED << csiVars, gateVars, clusterVars, crdAPIVersion, readRV >>
  /\ \/ VersionReturn(p, "CanUpgrade", "failed", ErrAPI)
     \/ /\ probe
        /\ VersionGoto(p, "CanUpgrade", "Create")
     \/ /\ ~probe
        /\ VersionReturn(p, "CanUpgrade", "ok", Nil)

(* mutant: every error of Create is returned, AlreadyExists too *)
CreateFailure_Strict(res) ==
  IF res = "ok" THEN Nil ELSE <<"cannot create CRDAPIVersionSetting">> \o ErrAPI

(* `if err != nil && !apierrors.IsAlreadyExists(err)`: what doAPIVersionUpgrade
   returns after a Create that ended with res *)
CreateFailure(res) ==
  IF res = "failed" THEN <<"cannot create CRDAPIVersionSetting">> \o ErrAPI ELSE Nil

(* upgradable: Settings.Create of the setting with the current version *)
CreateSetting(p) ==
  /\ Running(p)
  /\ cpc[p] = "Create"
  /\ UNCHANGED << csiVars, gateVars, probe, conversions, crdAPIVersion, readRV >>
  /\ \/ /\ VersionReturn(p, "Create", "failed", CreateFailure("failed"))
        /\ UNCHANGED setting
     \/ (* the setting is there: AlreadyExists *)
        /\ setting.exists
        /\ VersionReturn(p, "Create", "exists", CreateFailure("exists"))
        /\ UNCHANGED setting
     \/ /\ ~setting.exists
        /\ setting' = [exists |-> TRUE, value |-> CreatedValue, rv |-> 1]
        /\ VersionReturn(p, "Create", "ok", CreateFailure("ok"))

(* case v1beta1: the legacy-to-current conversion of the custom resources *)
UpgradeCRFromV1beta1ToV1beta2(p) ==
  /\ Running(p)
  /\ cpc[p] = "UpgradeCRFromV1beta1ToV1beta2"
  /\ UNCHANGED << csiVars, gateVars, setting, probe, crdAPIVersion, readRV >>
  /\ \/ /\ VersionReturn(p, "UpgradeCRFromV1beta1ToV1beta2", "failed", ErrAPI)
        /\ UNCHANGED conversions
     \/ /\ conversions' = conversions + 1
        /\ VersionGoto(p, "UpgradeCRFromV1beta1ToV1beta2", "Update")

(* Settings.Update of the setting that was read, with its value replaced *)
UpdateSetting(p) ==
  /\ Running(p)
  /\ cpc[p] = "Update"
  /\ UNCHANGED << csiVars, gateVars, probe, conversions, crdAPIVersion, readRV >>
  /\ \/ /\ VersionReturn(p, "Update", "failed", <<"cannot finish CRD API upgrade">> \o ErrAPI)
        /\ UNCHANGED setting
     \/ (* the API server takes the update of an unmodified object only *)
        /\ setting.exists
        /\ setting.rv = readRV[p]
        /\ setting' = [exists |-> TRUE, value |-> UpdatedValue, rv |-> setting.rv + 1]
        /\ VersionReturn(p, "Update", "ok", Nil)

(* doCRUpgrade, doPodsUpgrade, doServicesUpgrade or
   doDeploymentAndDaemonSetUpgrade: its upgraders in order, up to the first
   that fails, then the deferred Wrap *)
RunPhase(p) ==
  /\ Running(p)
  /\ cpc[p] \in PhaseSet
  /\ UNCHANGED << csiVars, gateVars, clusterVars, crdAPIVersion, readRV >>
  /\ \E failAt \in 0..Len(StepsOf(cpc[p])) :
       LET calls == Calls(StepsOf(cpc[p]), failAt)
           e == Wrap(Returned(calls), WrapMsg(cpc[p]))
       IN Advance(p, calls, e, Continue(cpc[p], e))

Next ==
  \/ \E p \in Procs : Acquire(p)
  \/ \E p \in Procs : StopLeading(p)
  \/ \E p \in Procs : LoseLease(p)
  \/ LeaseExpire
  \/ \E p \in Procs : Crash(p)
  \/ \E p \in Procs : GetSetting(p)
  \/ \E p \in Procs : CanUpgrade(p)
  \/ \E p \in Procs : CreateSetting(p)
  \/ \E p \in Procs : UpgradeCRFromV1beta1ToV1beta2(p)
  \/ \E p \in Procs : UpdateSetting(p)
  \/ \E p \in Procs : RunPhase(p)

Spec == Init /\ [][Next]_vars

(* what the scheduling guarantees: a goroutine that can take its next step
   takes it, a candidate keeps retrying the lease every RetryPeriod, and time
   passes; nothing forces a crash or a failing renewal *)
Fairness ==
  /\ WF_vars(LeaseExpire)
  /\ \A p \in Procs :
       /\ WF_vars(Acquire(p))
       /\ WF_vars(StopLeading(p))
       /\ WF_vars(GetSetting(p))
       /\ WF_vars(CanUpgrade(p))
       /\ WF_vars(CreateSetting(p))
       /\ WF_vars(UpgradeCRFromV1beta1ToV1beta2(p))
       /\ WF_vars(UpdateSetting(p))
       /\ WF_vars(RunPhase(p))

FairSpec == Spec /\ Fairness

(* ---------------- CSI deployment: Deploy and Cleanup ---------------- *)
(* the error of a failed API call on an object *)
ErrCall(verb, kind) == << verb, kind, "api error" >>

(* the call log after one more call *)
Called(verb, kind, res) ==
  Append(apiCalls, [verb |-> verb, kind |-> kind, res |-> res])

(* one method of one component has just been called; the objects of the
   component may or may not exist yet *)
InitCSI ==
  /\ InitUpgrade
  /\ setting = Absent
  /\ probe
  /\ component \in Components
  /\ op \in {"Deploy", "Cleanup"}
  /\ present \in {f \in [Kinds -> BOOLEAN] : \A k \in Kinds \ ObjectSet(component) : ~f[k]}
  /\ dpc = IF op = "Deploy" THEN [i |-> 1, at |-> "get"] ELSE [i |-> 0, at |-> "idle"]
  /\ cmain = IF op = "Cleanup" THEN "start" ELSE "idle"
  /\ task = [k \in Kinds |-> "none"]
  /\ terr = [k \in Kinds |-> Nil]
  /\ result = Nil
  /\ apiCalls = << >>
  /\ others = 0

(* mutant: Deploy goes on to the next object whatever deploy returned *)
DeployNext_IgnoreError(i, e) ==
  IF i < Len(ObjectsOf(component))
  THEN [i |-> i + 1, at |-> "get"]
  ELSE [i |-> i, at |-> "returned"]

(* where Deploy goes once deploy of its i-th object has returned e:
   `if err := deploy(...); err != nil { return err }`, then the next deploy *)
DeployNext(i, e) ==
  IF e = Nil /\ i < Len(ObjectsOf(component))
  THEN [i |-> i + 1, at |-> "get"]
  ELSE [i |-> i, at |-> "returned"]

(* mutant: Deploy drops the error of deploy *)
DeployReturn_Swallowed(e) == Nil

(* what Deploy returns when it returns after deploy returned e:
   `return err`, `return deploy(...)` *)
DeployReturn(e) == e

(* deploy of the i-th object has returned e to Deploy *)
DeployReturned(i, e) ==
  /\ dpc' = DeployNext(i, e)
  /\ result' = IF dpc'.at = "returned" THEN DeployReturn(e) ELSE result

(* deploy: the get call *)
DeployGet ==
  /\ op = "Deploy"
  /\ dpc.at = "get"
  /\ LET k == ObjectsOf(component)[dpc.i] IN
       \/ /\ apiCalls' = Called("get", k, "failed")
          /\ DeployReturned(dpc.i, ErrCall("get", k))
       \/ /\ present[k]
          /\ apiCalls' = Called("get", k, "found")
          /\ DeployReturned(dpc.i, Nil)
       \/ /\ ~present[k]
          /\ apiCalls' = Called("get", k, "not found")
          /\ dpc' = [dpc EXCEPT !.at = "create"]
          /\ UNCHANGED result
  /\ UNCHANGED << upgradeVars, component, op, present, cmain, task, terr, others >>

(* deploy: the create call, made when get found nothing *)
DeployCreate ==
  /\ op = "Deploy"
  /\ dpc.at = "create"
  /\ LET k == ObjectsOf(component)[dpc.i] IN
       \/ /\ apiCalls' = Called("create", k, "failed")
          /\ DeployReturned(dpc.i, ErrCall("create", k))
          /\ UNCHANGED present
       \/ /\ present[k]
          /\ apiCalls' = Called("create", k, "exists")
          /\ DeployReturned(dpc.i, Nil)
          /\ UNCHANGED present
       \/ /\ ~present[k]
          /\ apiCalls' = Called("create", k, "ok")
          /\ present' = [present EXCEPT ![k] = TRUE]
          /\ DeployReturned(dpc.i, Nil)
  /\ UNCHANGED << upgradeVars, component, op, cmain, task, terr, others >>

(* another actor of the cluster: it creates an object while Deploy runs, or
   deletes one while Cleanup runs *)
OtherActor ==
  /\ others < MaxOthers
  /\ \E k \in ObjectSet(component) :
       \/ /\ op = "Deploy"
          /\ dpc.at /= "returned"
          /\ ~present[k]
          /\ present' = [present EXCEPT ![k] = TRUE]
       \/ /\ op = "Cleanup"
          /\ cmain /= "returned"
          /\ present[k]
          /\ present' = [present EXCEPT ![k] = FALSE]
  /\ others' = others + 1
  /\ UNCHANGED << upgradeVars, component, op, dpc, cmain, task, terr, result, apiCalls >>

(* Cleanup starts one cleanup per object: util.RunAsync(&wg, func() {...}) *)
CleanupStart ==
  /\ op = "Cleanup"
  /\ cmain = "start"
  /\ task' = [k \in Kinds |-> IF k \in ObjectSet(component) THEN "get" ELSE "none"]
  /\ cmain' = "wait"
  /\ UNCHANGED << upgradeVars, component, op, present, dpc, terr, result, apiCalls, others >>

(* the closure around cleanup: `if err := cleanup(...); err != nil { Warnf }` *)
CleanupLogged(k, e) ==
  /\ task' = [task EXCEPT ![k] = "done"]
  /\ terr' = [terr EXCEPT ![k] = e]

(* cleanup: the get call *)
CleanupGet(k) ==
  /\ op = "Cleanup"
  /\ task[k] = "get"
  /\ \/ /\ apiCalls' = Called("get", k, "failed")
        /\ CleanupLogged(k, ErrCall("get", k))
     \/ /\ ~present[k]
        /\ apiCalls' = Called("get", k, "not found")
        /\ CleanupLogged(k, Nil)
     \/ /\ present[k]
        /\ apiCalls' = Called("get", k, "found")
        /\ task' = [task EXCEPT ![k] = "delete"]
        /\ UNCHANGED terr
  /\ UNCHANGED << upgradeVars, component, op, present, dpc, cmain, result, others >>

(* cleanup: the delete call, made when get found the object *)
CleanupDelete(k) ==
  /\ op = "Cleanup"
  /\ task[k] = "delete"
  /\ \/ /\ apiCalls' = Called("delete", k, "failed")
        /\ CleanupLogged(k, ErrCall("delete", k))
        /\ UNCHANGED present
     \/ /\ ~present[k]
        /\ apiCalls' = Called("delete", k, "not found")
        /\ CleanupLogged(k, Nil)
        /\ UNCHANGED present
     \/ /\ present[k]
        /\ apiCalls' = Called("delete", k, "ok")
        /\ present' = [present EXCEPT ![k] = FALSE]
        /\ CleanupLogged(k, Nil)
  /\ UNCHANGED << upgradeVars, component, op, dpc, cmain, result, others >>

(* mutant: Cleanup does not wait for the cleanups it started *)
WaitDone_NoWait == TRUE

(* `defer wg.Wait()`: every cleanup Cleanup started has finished *)
WaitDone == \A k \in ObjectSet(component) : task[k] = "done"

(* mutant: Cleanup hands an error of its cleanups to the caller *)
CleanupResult_Propagated(errs) ==
  IF \E k \in Kinds : errs[k] /= Nil
  THEN errs[CHOOSE k \in Kinds : errs[k] /= Nil]
  ELSE Nil

(* what Cleanup reports to its caller: the method has no result, the errors of
   the cleanups are logged only *)
CleanupResult(errs) == Nil

(* Cleanup returns *)
CleanupReturn ==
  /\ op = "Cleanup"
  /\ cmain = "wait"
  /\ WaitDone
  /\ cmain' = "returned"
  /\ result' = CleanupResult(terr)
  /\ UNCHANGED << upgradeVars, component, op, present, dpc, task, terr, apiCalls, others >>

NextCSI ==
  \/ DeployGet
  \/ DeployCreate
  \/ OtherActor
  \/ CleanupStart
  \/ \E k \in Kinds : CleanupGet(k)
  \/ \E k \in Kinds : CleanupDelete(k)
  \/ CleanupReturn

SpecCSI == InitCSI /\ [][NextCSI]_vars

(* ---------------- helpers of the properties ---------------- *)

HasCall(p, s) == \E i \in DOMAIN log[p] : log[p][i].step = s

CallRes(p, s) == log[p][CHOOSE i \in DOMAIN log[p] : log[p][i].step = s].res

(* the callback of p has finished reading the setting *)
HasRead(p) == log[p] /= <<>> /\ log[p][1].res = "ok"

(* the error the call s produces when it fails, as the callback stores it *)
FailureOf(s) ==
  Wrap(CASE s = "Create" -> <<"cannot create CRDAPIVersionSetting", "api error">>
         [] s = "Update" -> <<"cannot finish CRD API upgrade", "api error">>
         [] s \in VersionSteps \ {"Create", "Update"} -> <<"api error">>
         [] OTHER -> <<s, "api error">>,
       WrapMsg(PhaseOf(s)))

(* ---------------- C1 ---------------- *)
(* C1: at most one candidate's OnStartedLeading callback is active at any
   time. *)
MutualExclusion ==
  \A p, q \in Procs : p /= q => ~(Running(p) /\ Running(q))

(* ---------------- C2 ---------------- *)
(* C2: every write of the setting, every legacy conversion and every chain
   phase is performed by a candidate that holds the valid lease at that
   moment. *)
SingleWriter ==
  [][\A p \in Procs :
       (/\ log'[p] /= log[p]
        /\ \/ setting' /= setting
           \/ conversions' /= conversions
           \/ cpc[p] \in PhaseSet)
       => HoldsLease(p)]_vars

(* ---------------- C3 ---------------- *)
(* C3: the marker only changes "" -> legacy, legacy -> current or
   "" -> current, and a setting that exists is never removed. *)
MonotonicVersion ==
  [][/\ Marker' /= Marker =>
          << Marker, Marker' >> \in
            { << "", CRDAPIVersionV1beta1 >>,
              << CRDAPIVersionV1beta1, CRDAPIVersionV1beta2 >>,
              << "", CRDAPIVersionV1beta2 >> }
     /\ setting.exists => setting'.exists
     /\ Marker = CRDAPIVersionV1beta2 => setting' = setting]_vars

(* the marker has been rewritten from the legacy to the current version *)
MonotonicVersionWitness ==
  setting.rv = 2 /\ Marker = CRDAPIVersionV1beta2

(* ---------------- C4 ---------------- *)
(* C4: a run that read an unrecognized version has failed with the
   "unrecognized CRD API version" error right after the read, has made no
   other call, and the marker is as it was read. *)
UnsupportedVersionGuard ==
  \A p \in Procs :
    (HasRead(p) /\ crdAPIVersion[p] \notin {"", CRDAPIVersionV1beta1, CRDAPIVersionV1beta2})
    => /\ cpc[p] = "FAILED"
       /\ err[p] = << "upgrade API version failed", "unrecognized CRD API version" >>
       /\ Len(log[p]) = 1
       /\ Marker = crdAPIVersion[p]
       /\ conversions = 0

UnsupportedVersionGuardWitness ==
  \E p \in Procs :
    /\ HasRead(p)
    /\ crdAPIVersion[p] = CRDAPIVersionV1alpha1
    /\ cpc[p] = "FAILED"

(* ---------------- C5 ---------------- *)
(* C5: the calls of a run are made in declaration order, each at most once,
   each only after every earlier call of the run has returned without
   failure, and an upgrader only after all upgraders declared before it. *)
StrictPhaseOrder ==
  \A p \in Procs :
    LET l == log[p] IN
    /\ \A i, j \in DOMAIN l : i < j => Ord(l[i].step) < Ord(l[j].step)
    /\ \A i \in DOMAIN l : i < Len(l) => l[i].res /= "failed"
    /\ \A i \in DOMAIN l :
         l[i].step \in ChainStepSet =>
           /\ l[1].step = "Get"
           /\ \A k \in 1..(StepIndex(l[i].step) - 1) : HasCall(p, ChainSteps[k])
    /\ cpc[p] \in PhaseSet =>
         \A k \in 1..Len(ChainSteps) :
           HasCall(p, ChainSteps[k]) <=>
             Ord(ChainSteps[k]) < Ord(StepsOf(cpc[p])[1])
    /\ cpc[p] = "DONE" => \A k \in 1..Len(ChainSteps) : HasCall(p, ChainSteps[k])

(* a run has gone through all five phases *)
StrictPhaseOrderWitness ==
  \E p \in Procs : cpc[p] = "DONE" /\ Len(log[p]) > Len(ChainSteps)

(* ---------------- C6 ---------------- *)
(* C6: a failed call is the last call of its run, the run is FAILED, and
   the err of the run is the wrapped error of that call; a run is FAILED
   exactly when its err is not nil, and an error upgrade returns is that err. *)
FailFastChain ==
  \A p \in Procs :
    LET l == log[p] IN
    /\ \A i \in DOMAIN l :
         l[i].res = "failed" =>
           /\ i = Len(l)
           /\ cpc[p] = "FAILED"
           /\ err[p] = FailureOf(l[i].step)
    /\ cpc[p] = "FAILED" <=> err[p] /= Nil
    /\ (pc[p] = "returned" /\ ret[p] /= Nil) => ret[p] = err[p]

(* a pod upgrader failed after the custom-resource phase succeeded *)
FailFastChainWitness ==
  \E p \in Procs :
    /\ cpc[p] = "FAILED"
    /\ log[p][Len(log[p])].step = PodSteps[2]
    /\ pc[p] = "returned"
    /\ ret[p] = << "upgrade Pods failed", PodSteps[2], "api error" >>

(* ---------------- C7 ---------------- *)
(* C7: upgrade returns nil only when its own chain is DONE, and returns an
   error when its chain has FAILED. *)
ExitBehaviour ==
  \A p \in Procs :
    pc[p] = "returned" =>
      /\ ret[p] = Nil => cpc[p] = "DONE"
      /\ cpc[p] = "FAILED" => ret[p] /= Nil

(* ---------------- C8 ---------------- *)
(* C8: a run that read the current version makes no further call of
   version resolution (no probe, no conversion, no create, no update) and
   goes on to the custom-resource phase. *)
CurrentVersionNoOp ==
  \A p \in Procs :
    (HasRead(p) /\ crdAPIVersion[p] = CRDAPIVersionV1beta2)
    => /\ \A i \in DOMAIN log[p] : log[p][i].step \in VersionSteps => i = 1
       /\ Len(log[p]) = 1 => (cpc[p] = "doCRUpgrade" /\ err[p] = Nil)
       /\ Len(log[p]) > 1 => log[p][2].step = CRSteps[1]
       /\ Marker = CRDAPIVersionV1beta2

CurrentVersionNoOpWitness ==
  \E p \in Procs :
    /\ HasRead(p)
    /\ crdAPIVersion[p] = CRDAPIVersionV1beta2
    /\ readRV[p] = 1
    /\ cpc[p] = "doPodsUpgrade"

(* ---------------- C9 ---------------- *)
(* C9: a run that read the legacy version calls the conversion first and
   updates the marker only after the conversion succeeded; the marker leaves
   the legacy version only by such an update; a failing conversion leaves
   the marker alone and the run is FAILED without an update. *)
LegacyConversionFirst ==
  /\ [](\A p \in Procs :
          /\ (HasRead(p) /\ crdAPIVersion[p] = CRDAPIVersionV1beta1 /\ Len(log[p]) > 1)
               => log[p][2].step = "UpgradeCRFromV1beta1ToV1beta2"
          /\ (HasCall(p, "Update") \/ cpc[p] = "Update")
               => /\ HasCall(p, "UpgradeCRFromV1beta1ToV1beta2")
                  /\ CallRes(p, "UpgradeCRFromV1beta1ToV1beta2") = "ok"
                  /\ conversions > 0
          /\ (/\ HasCall(p, "UpgradeCRFromV1beta1ToV1beta2")
              /\ CallRes(p, "UpgradeCRFromV1beta1ToV1beta2") = "failed")
               => /\ cpc[p] = "FAILED"
                  /\ err[p] /= Nil
                  /\ ~HasCall(p, "Update"))
  /\ [][/\ (Marker = CRDAPIVersionV1beta1 /\ Marker' /= Marker)
             => /\ Marker' = CRDAPIVersionV1beta2
                /\ conversions > 0
                /\ \E p \in Procs : cpc[p] = "Update" /\ cpc'[p] /= "Update"
        /\ (\E p \in Procs : cpc[p] = "UpgradeCRFromV1beta1ToV1beta2" /\ cpc'[p] = "FAILED")
             => setting' = setting]_vars

(* a run converted the custom resources and then rewrote the marker *)
LegacyConversionFirstWitness ==
  \E p \in Procs :
    /\ HasCall(p, "Update")
    /\ CallRes(p, "Update") = "ok"
    /\ Marker = CRDAPIVersionV1beta2

(* ---------------- C10 ---------------- *)
(* C10: a run that found the marker absent or empty and whose probe answered
   true has, once version resolution returned without error, left the marker
   at the current version and has not called the legacy conversion. *)
FreshInstall ==
  \A p \in Procs :
    (/\ HasRead(p)
     /\ crdAPIVersion[p] = ""
     /\ probe
     /\ cpc[p] \in PhaseSet \cup {"DONE"})
    => /\ Marker = CRDAPIVersionV1beta2
       /\ ~HasCall(p, "UpgradeCRFromV1beta1ToV1beta2")

(* ---------------- C11 ---------------- *)
(* the outcome OnStartedLeading sees when doAPIVersionUpgrade has made a new
   installation: a nil error, and the callback goes on with the CR phase *)
NewInstallOutcome == << Nil, "doCRUpgrade" >>

(* C11: a run that found the marker empty and whose probe answered "not
   upgradable" makes no Create and leaves the setting alone, is not FAILED by
   this step, and the outcome its caller sees differs from the outcome of a
   successful new installation. *)
NegativeProbePropagated ==
  \A p \in Procs :
    (/\ HasRead(p)
     /\ crdAPIVersion[p] = ""
     /\ ~probe
     /\ HasCall(p, "CanUpgrade")
     /\ CallRes(p, "CanUpgrade") = "ok"
     /\ Len(log[p]) = 2)
    => /\ ~HasCall(p, "Create")
       /\ cpc[p] /= "FAILED"
       /\ << err[p], cpc[p] >> /= NewInstallOutcome

(* ---------------- C12 ---------------- *)
(* C12: once a run has reached DONE from a supported marker, a run that
   starts afterwards only reads the setting: its version resolution goes
   straight on to the CR phase (or fails on the read) without a probe, a
   conversion, a create or an update, and the setting stays as it is. *)
ChainIdempotent ==
  [][\A q \in Procs :
       (/\ \E p \in Procs : p /= q /\ cpc[p] = "DONE"
        /\ Marker = "" => probe
        /\ cpc[q] = "Get"
        /\ cpc'[q] /= "Get")
       => /\ cpc'[q] \in {"doCRUpgrade", "FAILED"}
          /\ setting' = setting
          /\ conversions' = conversions]_vars

(* ---------------- C13 ---------------- *)
(* p completed the chain and died without releasing the lease *)
CrashedLeader(p) == pc[p] = "crashed" /\ cpc[p] = "DONE" /\ lease.holder = p

(* the run of q started with the read, found the marker current and left it
   so; it is DONE without error after all upgraders, or stopped at a call
   that failed *)
CleanRerun(q) ==
  /\ cpc[q] \in {"DONE", "FAILED"}
  /\ log[q][1].step = "Get"
  /\ Marker = CRDAPIVersionV1beta2
  /\ cpc[q] = "DONE" => (err[q] = Nil /\ Len(log[q]) = 1 + Len(ChainSteps))
  /\ cpc[q] = "FAILED" => log[q][Len(log[q])].res = "failed"

(* C13: after a leader completed the chain, leaving the marker current, and
   crashed holding the lease, nobody acquires the lease before LeaseDuration
   has passed; a waiting candidate is then elected, starts the chain from its
   first call, and its run ends DONE with no error (unless one of its calls
   fails) with the marker still current. *)
CrashFailover ==
  /\ [][\A p \in Procs :
          (CrashedLeader(p) /\ ~lease.expired) => lease'.holder = p]_vars
  /\ [][\A q \in Procs :
          (pc[q] = "acquire" /\ pc'[q] = "leading")
            => (cpc'[q] = "Get" /\ log'[q] = <<>>)]_vars
  /\ \A p, q \in Procs :
       (CrashedLeader(p) /\ pc[q] = "acquire" /\ Marker = CRDAPIVersionV1beta2)
         ~> (pc[q] = "crashed" \/ CleanRerun(q))

(* the candidate that took the lease over from the crashed leader is DONE *)
CrashFailoverWitness ==
  \E p, q \in Procs :
    /\ pc[p] = "crashed"
    /\ cpc[p] = "DONE"
    /\ lease.holder /= p
    /\ pc[q] = "returned"
    /\ cpc[q] = "DONE"
    /\ ret[q] = Nil
    /\ Marker = CRDAPIVersionV1beta2

(* ---------------- C18 ---------------- *)
FreeLease == [holder |-> NoHolder, expired |-> FALSE]

(* C18: when the chain of a run has returned, DONE or FAILED, its election
   context is cancelled; the leader whose chain has returned can then stop
   leading with the lease released, and the step in which it stops leaves the
   lease released or, when the release did not get through, as it was; a
   waiting candidate can acquire a released lease at once, without
   LeaseExpire, and then starts the chain at its first call. *)
LeaseReleasedOnCompletion ==
  /\ [](\A p \in Procs : cpc[p] \in {"DONE", "FAILED"} => ctxDone[p])
  /\ [](\A p \in Procs :
          (pc[p] = "leading" /\ ctxDone[p] /\ HoldsLease(p))
            => ENABLED (StopLeading(p) /\ lease' = FreeLease))
  /\ [](\A q \in Procs :
          (lease = FreeLease /\ pc[q] = "acquire")
            => ENABLED (Acquire(q) /\ cpc'[q] = "Get"))
  /\ [][\A p \in Procs :
          (pc[p] = "leading" /\ ctxDone[p] /\ pc'[p] = "returned")
            => (lease' = FreeLease \/ lease' = lease)]_vars

(* the chain of p failed, p released the lease and q can take it *)
LeaseReleasedOnCompletionWitness ==
  \E p, q \in Procs :
    /\ cpc[p] = "FAILED"
    /\ pc[p] = "returned"
    /\ ret[p] /= Nil
    /\ lease = FreeLease
    /\ pc[q] = "acquire"

(* ---------------- C19 ---------------- *)
(* C19: a candidate that has not been elected has made no call of the chain
   (it has neither read nor written the setting) and its upgrade has not
   returned; a candidate leaves the wait only by acquiring a lease that is
   free or expired, and only then does its chain make calls. *)
BlockedCandidates ==
  /\ [](\A p \in Procs :
          /\ pc[p] = "acquire" => (cpc[p] = "idle" /\ log[p] = <<>> /\ err[p] = Nil)
          /\ cpc[p] = "idle" => (pc[p] \in {"acquire", "crashed"} /\ log[p] = <<>>))
  /\ [][\A p \in Procs :
          /\ (pc[p] = "acquire" /\ pc'[p] \notin {"acquire", "crashed"})
               => /\ lease.holder = NoHolder \/ lease.expired
                  /\ pc'[p] = "leading"
                  /\ lease' = [holder |-> p, expired |-> FALSE]
          /\ log'[p] /= log[p] => pc[p] /= "acquire"
          /\ (pc'[p] = "returned" /\ pc[p] /= "returned") => pc[p] = "leading"]_vars

(* a candidate waits while the leader is in the pod phase *)
BlockedCandidatesWitness ==
  \E p, q \in Procs :
    /\ pc[p] = "acquire"
    /\ HoldsLease(q)
    /\ pc[q] = "leading"
    /\ cpc[q] = "doPodsUpgrade"

(* ---------------- C20 ---------------- *)
(* C20: a Create that ended with AlreadyExists leaves the setting as it is
   and the run goes on to the CR phase with a nil error; a Create that failed
   otherwise ends the run FAILED with the create error, as its last call. *)
MarkerCreateTolerant ==
  /\ [](\A p \in Procs :
          HasCall(p, "Create") =>
            /\ log[p][3].step = "Create"
            /\ CallRes(p, "Create") = "exists" =>
                 /\ cpc[p] \in PhaseSet \cup {"DONE"} \/ Len(log[p]) > 3
                 /\ Len(log[p]) = 3 => (cpc[p] = "doCRUpgrade" /\ err[p] = Nil)
                 /\ Len(log[p]) > 3 => log[p][4].step = CRSteps[1]
            /\ CallRes(p, "Create") = "failed" =>
                 /\ cpc[p] = "FAILED"
                 /\ Len(log[p]) = 3
                 /\ err[p] = << "upgrade API version failed",
                                "cannot create CRDAPIVersionSetting", "api error" >>)
  /\ [][\A p \in Procs :
          (cpc[p] = "Create" /\ cpc'[p] /= "Create" /\ setting.exists)
            => (setting' = setting /\ cpc'[p] \in {"doCRUpgrade", "FAILED"})]_vars

(* a Create met an existing setting and the run went on *)
MarkerCreateTolerantWitness ==
  \E p \in Procs :
    /\ HasCall(p, "Create")
    /\ CallRes(p, "Create") = "exists"
    /\ cpc[p] = "doPodsUpgrade"

(* ---------------- CSI deployment: properties ---------------- *)
CallsOn(kind) == {i \in DOMAIN apiCalls : apiCalls[i].kind = kind}

MadeCall(verb, kind, res) ==
  \E i \in DOMAIN apiCalls :
    apiCalls[i] = [verb |-> verb, kind |-> kind, res |-> res]

FailedOn(kind) == \E i \in CallsOn(kind) : apiCalls[i].res = "failed"

Reconciled(kind, before) ==
  \E j \in 1..(before - 1) :
    apiCalls[j].kind = kind /\ apiCalls[j].res \in {"found", "exists", "ok"}

LastCall == apiCalls[Len(apiCalls)]

TwoObjectDeploy == op = "Deploy" /\ Len(ObjectsOf(component)) = 2

TwoObjectCleanup == op = "Cleanup" /\ Len(ObjectsOf(component)) = 2

(* C14: Deploy of the attacher and of the provisioner reconciles the service
   first and the deployment second: the deployment is only touched after the
   service reconcile succeeded; when the service reconcile fails Deploy
   returns that error and never touches the deployment; when the deployment
   reconcile fails Deploy returns that error and the service is still
   present; no step of Deploy removes an object *)
FailFastDeploy ==
  /\ [](TwoObjectDeploy =>
         /\ \A i \in CallsOn("deployment") : Reconciled("service", i)
         /\ FailedOn("service") =>
              /\ CallsOn("deployment") = {}
              /\ dpc.at = "returned"
              /\ result = ErrCall(LastCall.verb, "service")
         /\ (dpc.at = "returned" /\ FailedOn("deployment")) =>
              /\ result = ErrCall(LastCall.verb, "deployment")
              /\ present["service"])
  /\ [][TwoObjectDeploy => \A k \in Kinds : present[k] => present'[k]]_vars

FailFastDeployWitness ==
  /\ TwoObjectDeploy
  /\ dpc.at = "returned"
  /\ MadeCall("create", "service", "ok")
  /\ MadeCall("create", "deployment", "failed")
  /\ result = ErrCall("create", "deployment")
  /\ present["service"]
  /\ ~present["deployment"]

(* C15: in Cleanup of the attacher and of the provisioner a cleanup that has
   not finished can always take its next step, whatever the other cleanup
   did or failed to do; when Cleanup has returned, the cleanup of each object
   has been attempted and Cleanup reports no error, also when cleanups
   failed *)
BestEffortCleanup ==
  TwoObjectCleanup =>
    /\ \A k \in ObjectSet(component) :
         /\ task[k] = "get" => ENABLED CleanupGet(k)
         /\ task[k] = "delete" => ENABLED CleanupDelete(k)
    /\ cmain = "returned" =>
         /\ \A k \in ObjectSet(component) : CallsOn(k) /= {}
         /\ result = Nil

BestEffortCleanupWitness ==
  /\ TwoObjectCleanup
  /\ cmain = "returned"
  /\ apiCalls[2] = [verb |-> "delete", kind |-> "service", res |-> "failed"]
  /\ terr["service"] = ErrCall("delete", "service")
  /\ MadeCall("delete", "deployment", "ok")
  /\ ~present["deployment"]
  /\ result = Nil

(* C16: the cleanups Cleanup started run in either order, and Cleanup
   returns only when each of them has finished, with or without an error;
   after Cleanup has returned no cleanup takes a step *)
CleanupJoin ==
  /\ [](op = "Cleanup" =>
         /\ (\A k \in ObjectSet(component) : task[k] = "get") =>
              \A k \in ObjectSet(component) : ENABLED CleanupGet(k)
         /\ cmain = "returned" =>
              \A k \in ObjectSet(component) : task[k] = "done"
         /\ (ENABLED CleanupReturn) =>
              \A k \in ObjectSet(component) : task[k] = "done")
  /\ [][(op = "Cleanup" /\ cmain = "returned") =>
          (task' = task /\ terr' = terr /\ apiCalls' = apiCalls)]_vars

CleanupJoinWitness ==
  /\ TwoObjectCleanup
  /\ cmain = "returned"
  /\ apiCalls[1].kind = "deployment"
  /\ FailedOn("service")
  /\ \A k \in ObjectSet(component) : task[k] = "done"

(* C17: deploy of one object, in Deploy of any component: the first call on
   the object is get; when get finds it, no create and no delete is made;
   when get does not find it, create is called; a create answered "already
   exists" counts as success; Deploy makes no delete call; Deploy returns
   the error of the get or create that failed, and nil otherwise *)
DeployReconcile ==
  op = "Deploy" =>
    /\ \A i \in DOMAIN apiCalls :
         /\ apiCalls[i].verb \in {"get", "create"}
         /\ apiCalls[i].verb = "create" =>
              /\ i > 1
              /\ apiCalls[i - 1] =
                   [verb |-> "get", kind |-> apiCalls[i].kind, res |-> "not found"]
         /\ apiCalls[i].res = "found" =>
              \A j \in CallsOn(apiCalls[i].kind) : j = i
         /\ apiCalls[i].res = "not found" =>
              \/ i < Len(apiCalls) /\ apiCalls[i + 1].verb = "create"
              \/ i = Len(apiCalls) /\ dpc.at = "create"
         /\ apiCalls[i].res \in {"found", "exists", "ok"} =>
              \/ i < Len(apiCalls) /\ apiCalls[i + 1].verb = "get"
              \/ i = Len(apiCalls) /\ dpc.at = "get"
              \/ i = Len(apiCalls) /\ dpc.at = "returned" /\ result = Nil
         /\ apiCalls[i].res = "failed" =>
              /\ i = Len(apiCalls)
              /\ dpc.at = "returned"
              /\ result = ErrCall(apiCalls[i].verb, apiCalls[i].kind)
    /\ \A k \in Kinds :
         CallsOn(k) /= {} =>
           LET first == CHOOSE i \in CallsOn(k) : \A j \in CallsOn(k) : i <= j
           IN apiCalls[first].verb = "get"

DeployReconcileWitness ==
  /\ op = "Deploy"
  /\ component = "plugin"
  /\ dpc.at = "returned"
  /\ MadeCall("get", "daemon set", "not found")
  /\ MadeCall("create", "daemon set", "exists")
  /\ present["daemon set"]
  /\ result = Nil

(* ---------------- one run per call, termination, resolved version ---------------- *)
Starts(p) == {i \in DOMAIN log[p] : log[p][i].step = "Get"}

ChainOver(p) == cpc[p] \in {"DONE", "FAILED"}

(* C21: within one call of upgrade the callback is started once, by the one
   acquisition of the call: the chain is at START only through Acquire of a
   candidate that was waiting with its callback not yet started; a candidate
   takes the lease only while waiting and never waits again afterwards; a
   chain that ended DONE or FAILED has cancelled the context, stays ended,
   and its candidate cannot acquire again even if the lease is free; no
   call of the chain is made twice *)
OneChainPerCall ==
  /\ [](\A p \in Procs :
          /\ Cardinality(Starts(p)) <= 1
          /\ \A i, j \in DOMAIN log[p] : log[p][i].step = log[p][j].step => i = j
          /\ cpc[p] /= "idle" => pc[p] /= "acquire"
          /\ ChainOver(p) => ctxDone[p] /\ ~ENABLED Acquire(p))
  /\ [][\A p \in Procs :
          /\ (cpc'[p] = "Get" /\ cpc[p] /= "Get") =>
               (cpc[p] = "idle" /\ pc[p] = "acquire" /\ pc'[p] = "leading")
          /\ (lease'.holder = p /\ ~lease'.expired /\ ~HoldsLease(p)) =>
               pc[p] = "acquire"
          /\ pc[p] /= "acquire" => pc'[p] /= "acquire"
          /\ ChainOver(p) => (cpc'[p] = cpc[p] /\ log'[p] = log[p])]_vars

OneChainPerCallWitness ==
  \E p \in Procs :
    /\ cpc[p] = "FAILED"
    /\ pc[p] = "returned"
    /\ ret[p] /= Nil
    /\ Cardinality(Starts(p)) = 1
    /\ lease = FreeLease
    /\ \A q \in Procs \ {p} : pc[q] = "crashed"

(* the call of p has returned and its chain has run, once, to DONE or FAILED *)
Finished(p) ==
  /\ pc[p] = "returned"
  /\ ChainOver(p)
  /\ Cardinality(Starts(p)) = 1

(* C22: under fair scheduling every candidate whose process does not die is
   elected, runs the chain once to DONE or FAILED, and its call of upgrade
   returns. Nobody is stuck behind a leader that is through: a leader whose
   chain is over can stop leading; the lease of a holder that has returned
   or died can expire; a waiting candidate can take a free or expired lease *)
AllCandidatesTerminate ==
  /\ [](\A p \in Procs :
          /\ (pc[p] = "leading" /\ ChainOver(p)) => ENABLED StopLeading(p)
          /\ (HoldsLease(p) /\ pc[p] \in {"returned", "crashed"}) => ENABLED LeaseExpire
          /\ (pc[p] = "acquire" /\ (lease.holder = NoHolder \/ lease.expired)) =>
               ENABLED Acquire(p))
  /\ \A p \in Procs : <>(pc[p] = "crashed" \/ Finished(p))

AllCandidatesTerminateWitness ==
  /\ \A p \in Procs : Finished(p)
  /\ \E p \in Procs : cpc[p] = "FAILED"
  /\ \E p \in Procs : cpc[p] = "DONE"
  /\ lease.holder /= NoHolder

(* the run of p is in the CR upgrade phase or past it *)
EnteredCRPhase(p) ==
  \/ cpc[p] \in PhaseSet \cup {"DONE"}
  \/ \E i \in DOMAIN log[p] : log[p][i].step \in ChainStepSet

(* C23: whenever a run is in the CR upgrade phase or past it, the persisted
   CRD-API-version setting carries the current version *)
ResolvedVersion ==
  \A p \in Procs : EnteredCRPhase(p) => Marker = CurrentCRDAPIVersion

====
